---------------------------- MODULE Spec2Model ----------------------------
(* Verification model of the 3dmr query API (mainapp/api.py) and of the   *)
(* GLB validation pipeline (mainapp/utils/model_validator.py).            *)
(*                                                                        *)
(* Three specifications share the variables below:                        *)
(*   SpecValidate  one run of validate_glb_file, step by step;            *)
(*   SpecQuery     the six query handlers over a small record store;      *)
(*   SpecPage      pagination of a table of 0..MaxN matching records.     *)
EXTENDS Integers, Sequences, FiniteSets, TLC

VARIABLES
    \* ---- validate_glb_file -------------------------------------------
    variant,       \* which side of the unresolved conflict (lines 35-48, 88-92) is built
    file_field,    \* the upload: [name, content]
    launch,        \* what subprocess.run does: "ok" or the OSError it raises
    stdout,        \* what the validator printed
    pc,            \* position of the run inside validate_glb_file
    temp_exists,   \* the NamedTemporaryFile is on disk
    temp_created,  \* history: a temporary file was created in this run
    invocations,   \* history: number of subprocess.run calls in this run
    outcome,       \* how validate_glb_file ended
    \* ---- api.py handlers ---------------------------------------------
    store,         \* the Model table, in the order it yields rows without order_by
    request,       \* the last request handled
    response       \* its response

vvars == <<variant, file_field, launch, stdout, pc, temp_exists, temp_created,
           invocations, outcome>>
qvars == <<store, request, response>>
vars  == <<vvars, qvars>>

Min(a, b) == IF a < b THEN a ELSE b
Max(a, b) == IF a > b THEN a ELSE b

(***************************************************************************)
(* Strings are sequences of one-character strings so that str.lower(),     *)
(* str.endswith() and the icontains lookup can be computed.                *)
(***************************************************************************)
LowerChar(c) ==
    CASE c = "G" -> "g" [] c = "L" -> "l" [] c = "B" -> "b" [] c = "M" -> "m"
      [] c = "T" -> "t" [] c = "O" -> "o" [] c = "W" -> "w" [] c = "E" -> "e"
      [] c = "R" -> "r" [] c = "F" -> "f" [] OTHER -> c

\* str.lower()
Lower(s) == [i \in 1..Len(s) |-> LowerChar(s[i])]

\* str.endswith(suffix)
EndsWith(s, suffix) ==
    /\ Len(suffix) <= Len(s)
    /\ SubSeq(s, Len(s) - Len(suffix) + 1, Len(s)) = suffix

\* `sub in s`
Contains(s, sub) ==
    \E i \in 1..(Len(s) - Len(sub) + 1) : SubSeq(s, i, i + Len(sub) - 1) = sub


(***************************************************************************)
(*                  validate_glb_file (model_validator.py)                 *)
(***************************************************************************)
\* Longest issues.messages list of a validator report.
MaxMsgs == 2

\* "m.glb", "M.GLB", "m.obj", "glb"
FileNames ==
    { <<"m", ".", "g", "l", "b">>, <<"M", ".", "G", "L", "B">>,
      <<"m", ".", "o", "b", "j">>, <<"g", "l", "b">> }

\* b"glTF\x02", b"glT" (a 3-byte upload), b"PK\x03\x04", b"GLTF\x02"
FileContents ==
    { <<"g", "l", "T", "F", "2">>, <<"g", "l", "T">>,
      <<"P", "K", "3", "4">>, <<"G", "L", "T", "F", "2">> }

Variants == {"upstream", "stashed"}

\* subprocess.run either runs the validator or raises an OSError.
Launches == {"ok", "FileNotFoundError", "PermissionError"}

\* A JSON object is a record whose field `keys` is the set of keys present;
\* the field of an absent key holds a fixed filler that is never read.
Messages ==
    { [keys |-> {"severity", "message", "pointer"}, severity |-> 0, message |-> "a", pointer |-> "/p"],
      [keys |-> {"severity", "message"}, severity |-> 0, message |-> "b", pointer |-> ""],
      [keys |-> {"severity", "message"}, severity |-> 1, message |-> "w", pointer |-> ""],
      [keys |-> {"message"}, severity |-> 0, message |-> "n", pointer |-> ""],
      [keys |-> {"severity"}, severity |-> 0, message |-> "", pointer |-> ""],
      [keys |-> {"severity"}, severity |-> 1, message |-> "", pointer |-> ""] }

MessageLists == UNION { [1..n -> Messages] : n \in 0..MaxMsgs }

Infos ==
    { [keys |-> {"totalVertexCount", "totalTriangleCount"},
       totalVertexCount |-> v, totalTriangleCount |-> t] : v \in {2, 3}, t \in {0, 1} }
    \cup { [keys |-> {"totalVertexCount"}, totalVertexCount |-> v,
            totalTriangleCount |-> 0] : v \in {2, 3} }
    \cup { [keys |-> {"totalTriangleCount"}, totalVertexCount |-> 0,
            totalTriangleCount |-> t] : t \in {0, 1} }
    \cup { [keys |-> {}, totalVertexCount |-> 0, totalTriangleCount |-> 0] }

Issues ==
    { [keys |-> {"numErrors", "messages"}, numErrors |-> n, messages |-> ms] :
        n \in 0..2, ms \in MessageLists }
    \cup { [keys |-> {"numErrors"}, numErrors |-> n, messages |-> <<>>] : n \in 0..2 }
    \cup { [keys |-> {"messages"}, numErrors |-> 0, messages |-> ms] : ms \in MessageLists }
    \cup { [keys |-> {}, numErrors |-> 0, messages |-> <<>>] }

NoInfo   == [keys |-> {}, totalVertexCount |-> 0, totalTriangleCount |-> 0]
NoIssues == [keys |-> {}, numErrors |-> 0, messages |-> <<>>]

Reports ==
    { [keys |-> {"info", "issues"}, info |-> i, issues |-> s] : i \in Infos, s \in Issues }
    \cup { [keys |-> {"info"}, info |-> i, issues |-> NoIssues] : i \in Infos }
    \cup { [keys |-> {"issues"}, info |-> NoInfo, issues |-> s] : s \in Issues }
    \cup { [keys |-> {}, info |-> NoInfo, issues |-> NoIssues] }

NoReport == [keys |-> {}, info |-> NoInfo, issues |-> NoIssues]

\* What the validator wrote to its standard output: bytes that are not UTF-8,
\* text that is not JSON, a JSON value that is no object, or a JSON object.
Stdouts ==
    { [kind |-> k, report |-> NoReport] : k \in {"not_utf8", "not_json", "json_null"} }
    \cup { [kind |-> "json_object", report |-> r] : r \in Reports }

NoStdout == [kind |-> "none", report |-> NoReport]

\* How a call of validate_glb_file ends (or "running", "fallthrough").
Running        == [kind |-> "running", exc |-> "", msg |-> "", messages |-> <<>>]
FallThrough    == [kind |-> "fallthrough", exc |-> "", msg |-> "", messages |-> <<>>]
ReturnNone     == [kind |-> "return_none", exc |-> "", msg |-> "", messages |-> <<>>]
ReturnList(ms) == [kind |-> "return_list", exc |-> "", msg |-> "", messages |-> ms]
Raise(e, m)    == [kind |-> "raise", exc |-> e, msg |-> m, messages |-> <<>>]

InternalServerError == Raise("ValidationError", "Internal server error.")

\* file_field.read(4)
Read(content, n) == SubSeq(content, 1, Min(n, Len(content)))

\* A temporary file that outlives its with block (delete=False).
WithExitKeep(exists) == exists

\* NamedTemporaryFile.__exit__: the file is deleted when the with block is left.
WithExit(exists) == FALSE

\* The for loop of lines 77-82 from message i on; a missing key raises KeyError.
RECURSIVE CollectErrors(_, _, _)
CollectErrors(msgs, i, acc) ==
    IF i > Len(msgs) THEN [keyerror |-> FALSE, messages |-> acc]
    ELSE LET message == msgs[i] IN
         IF "severity" \notin message.keys THEN [keyerror |-> TRUE, messages |-> acc]
         ELSE IF message.severity = 0
              THEN IF "message" \notin message.keys
                   THEN [keyerror |-> TRUE, messages |-> acc]
                   ELSE CollectErrors(msgs, i + 1,
                            Append(acc, [message |-> message.message,
                                         pointer |-> IF "pointer" \in message.keys
                                                     THEN message.pointer ELSE "N/A"]))
              ELSE CollectErrors(msgs, i + 1, acc)

\* Lines 67-87: the try block over the parsed report.
EvalReport(output) ==
    IF "info" \notin output.keys THEN InternalServerError
    ELSE IF "totalVertexCount" \notin output.info.keys THEN InternalServerError
    ELSE IF output.info.totalVertexCount < 3
         THEN Raise("ValidationError", "GLB file must have some valid shape.")
    ELSE IF "totalTriangleCount" \notin output.info.keys THEN InternalServerError
    ELSE IF output.info.totalTriangleCount < 1
         THEN Raise("ValidationError", "GLB file must have some valid shape.")
    ELSE IF "issues" \notin output.keys THEN InternalServerError
    ELSE IF "numErrors" \notin output.issues.keys THEN InternalServerError
    ELSE IF output.issues.numErrors > 0
         THEN IF "messages" \notin output.issues.keys THEN InternalServerError
              ELSE LET r == CollectErrors(output.issues.messages, 1, <<>>) IN
                   IF r.keyerror THEN InternalServerError ELSE ReturnList(r.messages)
    ELSE FallThrough


\* Leaving the with block of lines 36/43 with result r: the temporary file is
\* released before r reaches the caller.
LeaveWith(r) ==
    /\ temp_exists' = WithExit(temp_exists)
    /\ outcome' = r
    /\ pc' = "done"

\* Lines 25-26.
CheckExtension ==
    /\ pc = "start"
    /\ IF ~EndsWith(Lower(file_field.name), <<".", "g", "l", "b">>)
       THEN /\ outcome' = Raise("ValidationError", "Only .glb files are supported.")
            /\ pc' = "done"
       ELSE /\ pc' = "header"
            /\ UNCHANGED outcome
    /\ UNCHANGED <<variant, file_field, launch, stdout, temp_exists, temp_created,
                   invocations, qvars>>

\* Lines 28-33 with only three bytes read and compared.
CheckHeaderThreeBytes ==
    /\ pc = "header"
    /\ LET header == Read(file_field.content, 3) IN
       IF header # <<"g", "l", "T">>
       THEN /\ outcome' = Raise("ValidationError",
                    "The uploaded file does not appear to be a valid GLB file.")
            /\ pc' = "done"
       ELSE /\ pc' = "temp"
            /\ UNCHANGED outcome
    /\ UNCHANGED <<variant, file_field, launch, stdout, temp_exists, temp_created,
                   invocations, qvars>>

\* Lines 28-33.
CheckHeader ==
    /\ pc = "header"
    /\ LET header == Read(file_field.content, 4) IN
       IF header # <<"g", "l", "T", "F">>
       THEN /\ outcome' = Raise("ValidationError",
                    "The uploaded file does not appear to be a valid GLB file.")
            /\ pc' = "done"
       ELSE /\ pc' = "temp"
            /\ UNCHANGED outcome
    /\ UNCHANGED <<variant, file_field, launch, stdout, temp_exists, temp_created,
                   invocations, qvars>>

\* Lines 36-39 (upstream) / 43-46 (stashed): the temporary file is created and
\* the upload written to it.
CreateTemp ==
    /\ pc = "temp"
    /\ temp_exists' = TRUE
    /\ temp_created' = TRUE
    /\ pc' = "run"
    /\ UNCHANGED <<variant, file_field, launch, stdout, invocations, outcome,
                   qvars>>

\* Lines 49-59: subprocess.run; only FileNotFoundError is caught.
RunValidator ==
    /\ pc = "run"
    /\ invocations' = invocations + 1
    /\ \E l \in Launches :
         /\ launch' = l
         /\ CASE l = "FileNotFoundError" ->
                   /\ LeaveWith(InternalServerError)
                   /\ UNCHANGED stdout
              [] l = "PermissionError" ->
                   /\ LeaveWith(Raise("PermissionError", "Permission denied"))
                   /\ UNCHANGED stdout
              [] OTHER ->
                   /\ \E out \in Stdouts : stdout' = out
                   /\ pc' = "parse"
                   /\ UNCHANGED <<temp_exists, outcome>>
    /\ UNCHANGED <<variant, file_field, temp_created, qvars>>

\* Lines 61-65: result.stdout.decode("utf-8") and json.loads; only
\* json.JSONDecodeError is caught.
ParseOutput ==
    /\ pc = "parse"
    /\ CASE stdout.kind = "not_utf8" ->
              LeaveWith(Raise("UnicodeDecodeError", "invalid start byte"))
         [] stdout.kind = "not_json" ->
              LeaveWith(InternalServerError)
         [] OTHER ->
              /\ pc' = "report"
              /\ UNCHANGED <<temp_exists, outcome>>
    /\ UNCHANGED <<variant, file_field, launch, stdout, temp_created, invocations,
                   qvars>>

\* Lines 67-87, and the end of the with block. Subscripting None raises a
\* TypeError, which nothing catches. When the try block neither returns nor
\* raises, the upstream side ends the function (None is returned) and the
\* stashed side goes on to line 90.
CheckReport ==
    /\ pc = "report"
    /\ LET r == IF stdout.kind = "json_null"
                THEN Raise("TypeError", "'NoneType' object is not subscriptable")
                ELSE EvalReport(stdout.report)
       IN IF r # FallThrough THEN LeaveWith(r)
          ELSE IF variant = "upstream" THEN LeaveWith(ReturnNone)
          ELSE /\ temp_exists' = WithExit(temp_exists)
               /\ pc' = "after_with"
               /\ UNCHANGED outcome
    /\ UNCHANGED <<variant, file_field, launch, stdout, temp_created, invocations,
                   qvars>>

\* Lines 90-91 (stashed side): model_validator.py never imports os, so the
\* name lookup raises NameError.
AfterWith ==
    /\ pc = "after_with"
    /\ outcome' = Raise("NameError", "name 'os' is not defined")
    /\ pc' = "done"
    /\ UNCHANGED <<variant, file_field, launch, stdout, temp_exists, temp_created,
                   invocations, qvars>>


(***************************************************************************)
(*                         Query handlers (api.py)                         *)
(***************************************************************************)
RESULTS_PER_API_CALL == 20

\* Largest page_id a request asks for.
MaxPage == 3

PageIds == (0 - 1)..MaxPage

Row(id, rev, latest, title, tags, categories, author, has_location, lat, lon) ==
    [model_id |-> id, revision |-> rev, latest |-> latest, title |-> title,
     tags |-> tags, categories |-> categories, author |-> author,
     has_location |-> has_location, latitude |-> lat, longitude |-> lon,
     is_hidden |-> FALSE]

\* The rows of the Model table. Angles are in thousandths of a degree. Rows 1
\* and 2 are two revisions of model 3; row 4 has no location.
Rows ==
    << Row(3, 1, FALSE, <<"T", "o", "w", "e", "r">>, {<< <<"color">>, <<"red">> >>},
           {"building"}, 1, TRUE, 0, 0 - 179000),
       Row(3, 2, TRUE, <<"T", "o", "w", "e", "r">>, {<< <<"color">>, <<"red">> >>},
           {"building"}, 1, TRUE, 0, 0 - 179000),
       Row(1, 1, TRUE, <<"t", "o", "w">>,
           {<< <<"color">>, <<"red">> >>, << <<"size">>, <<"M">> >>},
           {"building", "art"}, 1, TRUE, 0, 178000),
       Row(2, 1, TRUE, <<"T", "r", "e", "e">>, {<< <<"color">>, <<"blue">> >>},
           {}, 2, FALSE, 0, 0) >>

RowIds == 1..Len(Rows)

\* Every order in which the table can yield its rows.
StoreOrders ==
    { f \in [RowIds -> RowIds] : \A x \in RowIds : \E i \in RowIds : f[i] = x }

\* Every table: the rows in some order, each hidden or not.
Stores ==
    { [i \in RowIds |-> [Rows[f[i]] EXCEPT !.is_hidden = h[f[i]]]] :
        f \in StoreOrders, h \in [RowIds -> BOOLEAN] }

\* UserSocialAuth: uid -> user. uid "u9" has no row.
SocialAuth == [u \in {"u1", "u2"} |-> IF u = "u1" THEN 1 ELSE 2]
Uids == {"u1", "u2", "u9"}

\* utils.admin(request): the caller is privileged.
admin(req) == req.privileged

\* utils.get_kv(tag): "key=value" split at the first "="; no "=" makes the
\* caller's tuple unpacking raise ValueError.
get_kv(tag) ==
    IF \E i \in 1..Len(tag) : tag[i] = "="
    THEN LET i == CHOOSE j \in 1..Len(tag) :
                    tag[j] = "=" /\ \A k \in 1..(j - 1) : tag[k] # "="
         IN [error |-> FALSE, key |-> SubSeq(tag, 1, i - 1),
             value |-> SubSeq(tag, i + 1, Len(tag))]
    ELSE [error |-> TRUE, key |-> <<>>, value |-> <<>>]

\* A queryset is the sequence of rows it yields. Without order_by the table
\* yields its rows in the order of `store`.
Objects == store

\* The rows of a queryset.
RowsOf(qs) == { qs[i] : i \in 1..Len(qs) }

\* QuerySet.filter keeps the rows that pass (the set `passing`), in the order
\* they had.
Filter(qs, passing) == SelectSeq(qs, LAMBDA m : m \in passing)

RECURSIVE InsertById(_, _)
InsertById(sorted, m) ==
    IF sorted = <<>> THEN <<m>>
    ELSE IF m.model_id < Head(sorted).model_id
         THEN <<m>> \o sorted
         ELSE <<Head(sorted)>> \o InsertById(Tail(sorted), m)

\* QuerySet.order_by('model_id')
RECURSIVE order_by_model_id(_)
order_by_model_id(qs) ==
    IF qs = <<>> THEN <<>>
    ELSE InsertById(order_by_model_id(SubSeq(qs, 1, Len(qs) - 1)), qs[Len(qs)])

IsLatest(m)          == m.latest
NotHidden(m)         == ~m.is_hidden
HasTag(m, key, val)  == <<key, val>> \in m.tags
HasCategory(m, c)    == c \in m.categories
ByAuthor(m, user)    == m.author = user
TitleIContains(m, t) == Contains(Lower(m.title), Lower(t))

\* The visibility filter forgotten: every caller sees hidden records.
VisibleUnfiltered(req, qs) == qs

\* `if not admin(request): models = models.filter(is_hidden=False)`
Visible(req, qs) == IF ~admin(req) THEN Filter(qs, {m \in RowsOf(qs) : NotHidden(m)}) ELSE qs

\* Paginator.num_pages (orphans = 0, allow_empty_first_page = True)
NumPages(count, per_page) ==
    LET hits == Max(1, count) IN (hits + per_page - 1) \div per_page

\* Paginator.page(number) that counts pages from 0.
PaginatorPageZeroBased(object_list, per_page, number) ==
    IF number < 0 \/ number >= NumPages(Len(object_list), per_page)
    THEN [empty |-> TRUE, items |-> <<>>]
    ELSE [empty |-> FALSE,
          items |-> SubSeq(object_list, number * per_page + 1,
                           Min((number + 1) * per_page, Len(object_list)))]

\* Paginator.page(number): EmptyPage for number < 1 and for a number past the
\* last page, else the slice [(number-1)*per_page : number*per_page].
PaginatorPage(object_list, per_page, number) ==
    IF number < 1 \/ number > NumPages(Len(object_list), per_page)
    THEN [empty |-> TRUE, items |-> <<>>]
    ELSE [empty |-> FALSE,
          items |-> SubSeq(object_list, (number - 1) * per_page + 1,
                           Min(number * per_page, Len(object_list)))]

Ok(body)        == [status |-> 200, text |-> "", body |-> body]
BadRequest(t)   == [status |-> 400, text |-> t, body |-> <<>>]
NotFound        == [status |-> 404, text |-> "Not Found", body |-> <<>>]

\* Lines 17-27.
api_paginate(models, page_id) ==
    LET page          == PaginatorPage(models, RESULTS_PER_API_CALL, page_id)
        model_results == IF page.empty THEN <<>> ELSE page.items
    IN Ok([i \in 1..Len(model_results) |-> model_results[i].model_id])

\* Lines 133-138: the angular radius of `distance` metres, in thousandths of
\* a degree (pi * 6371e3 / 180 = 111194.93 metres to the degree).
AngularRadius(distance) == (distance * 1000) \div 111195

\* Line 149: asin(sin(angular_radius) / cos(latitude)), in thousandths of a
\* degree; on the equator it is the angular radius itself, elsewhere the
\* values are tabulated for the centres and radii the requests use.
DLongitude(latitude, angular_radius) ==
    CASE latitude = 0 -> angular_radius
      [] latitude = 60000 /\ angular_radius = 2000  -> 4002
      [] latitude = 60000 /\ angular_radius = 10000 -> 20322

\* Lines 140-168: the bounding box of range_filter.
Bounds(latitude, longitude, distance) ==
    LET angular_radius == AngularRadius(distance)
        min_latitude   == latitude - angular_radius
        max_latitude   == latitude + angular_radius
    IN IF min_latitude > 0 - 90000 /\ max_latitude < 90000
       THEN LET d_longitude == DLongitude(latitude, angular_radius)
                lo == longitude - d_longitude
                hi == longitude + d_longitude
            IN [min_latitude  |-> min_latitude,
                max_latitude  |-> max_latitude,
                min_longitude |-> IF lo < 0 - 180000 THEN lo + 360000 ELSE lo,
                max_longitude |-> IF hi > 180000 THEN hi - 360000 ELSE hi]
       ELSE [min_latitude  |-> Max(min_latitude, 0 - 90000),
             max_latitude  |-> Min(max_latitude, 90000),
             min_longitude |-> 0 - 180000,
             max_longitude |-> 180000]

\* Lines 170-174: the four gte/lte lookups; a row without location fails them.
InBox(m, box) ==
    /\ m.has_location
    /\ m.latitude >= box.min_latitude
    /\ m.latitude <= box.max_latitude
    /\ m.longitude >= box.min_longitude
    /\ m.longitude <= box.max_longitude

\* Lines 132-174.
range_filter(models, latitude, longitude, distance) ==
    LET box == Bounds(latitude, longitude, distance)
    IN Filter(models, {m \in RowsOf(models) : InBox(m, box)})

\* Lines 100-111.
lookup_tag(req) ==
    LET kv == get_kv(req.tag) IN
    IF kv.error THEN BadRequest("Invalid tag format.")
    ELSE LET models == order_by_model_id(
                 Filter(Objects, {m \in RowsOf(Objects) : IsLatest(m) /\ HasTag(m, kv.key, kv.value)}))
         IN api_paginate(Visible(req, models), req.page_id)

\* Lines 113-120.
lookup_category(req) ==
    LET models == Filter(Objects, {m \in RowsOf(Objects) : IsLatest(m) /\ HasCategory(m, req.category)})
    IN api_paginate(Visible(req, models), req.page_id)

\* Lines 122-130; get_object_or_404 raises Http404 for an unknown uid.
lookup_author(req) ==
    IF req.uid \notin DOMAIN SocialAuth THEN NotFound
    ELSE LET user   == SocialAuth[req.uid]
             models == Filter(Objects, {m \in RowsOf(Objects) : ByAuthor(m, user) /\ IsLatest(m)})
         IN api_paginate(Visible(req, models), req.page_id)

\* Lines 176-189.
search_range(req) ==
    LET models == Visible(req, Filter(Objects, {m \in RowsOf(Objects) : IsLatest(m)}))
    IN api_paginate(range_filter(models, req.latitude, req.longitude, req.distance),
                    req.page_id)

\* Lines 191-198.
search_title(req) ==
    LET models == Filter(Objects, {m \in RowsOf(Objects) : IsLatest(m) /\ TitleIContains(m, req.title)})
    IN api_paginate(Visible(req, models), req.page_id)

\* One value of a projected tuple: an id, a coordinate, None or a title.
IdCell(n)    == [kind |-> "id", num |-> n, str |-> <<>>]
NumCell(n)   == [kind |-> "number", num |-> n, str |-> <<>>]
NullCell     == [kind |-> "null", num |-> 0, str |-> <<>>]
StrCell(t)   == [kind |-> "string", num |-> 0, str |-> t]

\* Lines 262-278: one pass of the loop over fmt. model.location is None for a
\* row without location, and the bare except turns that into None.
Field(model, string) ==
    CASE string = "id"        -> [raised |-> FALSE, value |-> IdCell(model.model_id)]
      [] string = "latitude"  -> [raised |-> FALSE,
                                  value |-> IF model.has_location
                                            THEN NumCell(model.latitude) ELSE NullCell]
      [] string = "longitude" -> [raised |-> FALSE,
                                  value |-> IF model.has_location
                                            THEN NumCell(model.longitude) ELSE NullCell]
      [] string = "title"     -> [raised |-> FALSE, value |-> StrCell(model.title)]
      [] OTHER                -> [raised |-> TRUE, value |-> NullCell]

\* Lines 259-280: result(model).
result(model, fmt) ==
    [raised |-> \E i \in 1..Len(fmt) : Field(model, fmt[i]).raised,
     output |-> [i \in 1..Len(fmt) |-> Field(model, fmt[i]).value]]

\* Lines 200-287.
search_full(req) ==
    IF ~req.json_ok THEN BadRequest("Invalid JSON")
    ELSE
    LET data == req.data
        m0   == Visible(req, Filter(Objects, {m \in RowsOf(Objects) : IsLatest(m)}))
    IN IF data.author # "" /\ data.author \notin DOMAIN SocialAuth
       THEN BadRequest("Author not found")
       ELSE
       LET m1 == IF data.author # ""
                 THEN Filter(m0, {m \in RowsOf(m0) : ByAuthor(m, SocialAuth[data.author])})
                 ELSE m0
           m2 == IF data.geo.present
                 THEN range_filter(m1, data.geo.lat, data.geo.lon, data.geo.range)
                 ELSE m1
           m3 == IF data.title # <<>>
                 THEN Filter(m2, {m \in RowsOf(m2) : TitleIContains(m, data.title)})
                 ELSE m2
           m4 == Filter(m3, {m \in RowsOf(m3) : \A kv \in data.tags : HasTag(m, kv[1], kv[2])})
           m5 == Filter(m4, {m \in RowsOf(m4) : \A c \in data.categories : HasCategory(m, c)})
           models  == order_by_model_id(m5)
           page_id == data.page
           fmt     == data.format
       IN IF fmt = <<>> THEN api_paginate(models, page_id)
          ELSE
          LET page          == PaginatorPage(models, RESULTS_PER_API_CALL, page_id)
              model_results == IF page.empty THEN <<>> ELSE page.items
              results       == [i \in 1..Len(model_results) |->
                                    result(model_results[i], fmt)]
          IN IF \E i \in 1..Len(results) : results[i].raised
             THEN BadRequest("Invalid format specifier")
             ELSE Ok([i \in 1..Len(results) |-> results[i].output])

(***************************************************************************)
(* Requests. Every handler is stateless and leaves the table alone, so a   *)
(* behaviour is one table and one request handled on it.                   *)
(***************************************************************************)
TagStrings ==
    { <<"color", "=", "red">>, <<"color", "=", "blue">>, <<"size", "=", "M">>, <<"color">> }

Categories == {"building", "art", "vehicle"}

\* "TOW", "re", "x"
Titles == { <<"T", "O", "W">>, <<"r", "e">>, <<"x">> }

\* Centre and radius (metres) of a range query: a box that wraps at +180, one
\* that wraps at -180, one that does not wrap, one that encloses the pole and
\* one off the equator.
RangeQueries ==
    { [lat |-> 0, lon |-> 179000, range |-> 222390],
      [lat |-> 0, lon |-> 0 - 179000, range |-> 222390],
      [lat |-> 0, lon |-> 177000, range |-> 222390],
      [lat |-> 89000, lon |-> 0, range |-> 222390],
      [lat |-> 60000, lon |-> 178000, range |-> 1111950] }

NoGeo == [present |-> FALSE, lat |-> 0, lon |-> 0, range |-> 0]

Geos ==
    { NoGeo } \cup
    { [present |-> TRUE, lat |-> g.lat, lon |-> g.lon, range |-> g.range] :
        g \in { q \in RangeQueries : q.lat = 0 /\ q.lon > 0 } }

Formats ==
    { <<>>, <<"id", "latitude", "longitude", "title">>,
      <<"bogus", "id">>, <<"title", "bogus">> }

\* The JSON bodies of search_full; an absent key and a falsy value read alike.
Bodies ==
    [ author     : {"", "u1", "u9"},
      geo        : Geos,
      title      : {<<>>, <<"T", "O", "W">>},
      tags       : { {}, {<< <<"color">>, <<"red">> >>, << <<"size">>, <<"M">> >>} },
      categories : { {}, {"building"}, {"building", "art"} },
      page       : PageIds,
      format     : Formats ]

NoRequest  == [op |-> "none", privileged |-> FALSE]
NoResponse == [status |-> 0, text |-> "", body |-> <<>>]

LookupTag ==
    /\ request = NoRequest
    /\ \E priv \in BOOLEAN, tag \in TagStrings, page_id \in PageIds :
         /\ request' = [op |-> "lookup_tag", privileged |-> priv, tag |-> tag,
                        page_id |-> page_id]
         /\ response' = lookup_tag(request')
    /\ UNCHANGED <<store, vvars>>

LookupCategory ==
    /\ request = NoRequest
    /\ \E priv \in BOOLEAN, category \in Categories, page_id \in PageIds :
         /\ request' = [op |-> "lookup_category", privileged |-> priv,
                        category |-> category, page_id |-> page_id]
         /\ response' = lookup_category(request')
    /\ UNCHANGED <<store, vvars>>

LookupAuthor ==
    /\ request = NoRequest
    /\ \E priv \in BOOLEAN, uid \in Uids, page_id \in PageIds :
         /\ request' = [op |-> "lookup_author", privileged |-> priv, uid |-> uid,
                        page_id |-> page_id]
         /\ response' = lookup_author(request')
    /\ UNCHANGED <<store, vvars>>

SearchRange ==
    /\ request = NoRequest
    /\ \E priv \in BOOLEAN, g \in RangeQueries, page_id \in PageIds :
         /\ request' = [op |-> "search_range", privileged |-> priv,
                        latitude |-> g.lat, longitude |-> g.lon, distance |-> g.range,
                        page_id |-> page_id]
         /\ response' = search_range(request')
    /\ UNCHANGED <<store, vvars>>

SearchTitle ==
    /\ request = NoRequest
    /\ \E priv \in BOOLEAN, title \in Titles, page_id \in PageIds :
         /\ request' = [op |-> "search_title", privileged |-> priv, title |-> title,
                        page_id |-> page_id]
         /\ response' = search_title(request')
    /\ UNCHANGED <<store, vvars>>

SearchFull ==
    /\ request = NoRequest
    /\ \E priv \in BOOLEAN, data \in Bodies :
         /\ request' = [op |-> "search_full", privileged |-> priv, json_ok |-> TRUE,
                        data |-> data]
         /\ response' = search_full(request')
    /\ UNCHANGED <<store, vvars>>

\* search_full on a body that is not JSON (lines 204-207).
SearchFullBadJson ==
    /\ request = NoRequest
    /\ \E priv \in BOOLEAN :
         /\ request' = [op |-> "search_full", privileged |-> priv, json_ok |-> FALSE]
         /\ response' = search_full(request')
    /\ UNCHANGED <<store, vvars>>

(***************************************************************************)
(*                           Specifications                                *)
(***************************************************************************)
\* Longest match list handed to api_paginate on its own.
MaxN == 45

ValidateIdle ==
    /\ variant = "upstream"
    /\ file_field = [name |-> <<>>, content |-> <<>>]
    /\ launch = "none"
    /\ stdout = NoStdout
    /\ pc = "idle"
    /\ temp_exists = FALSE
    /\ temp_created = FALSE
    /\ invocations = 0
    /\ outcome = Running

QueryIdle ==
    /\ store = <<>>
    /\ request = NoRequest
    /\ response = NoResponse

\* validate_glb_file is called with some upload.
InitValidate ==
    /\ variant \in Variants
    /\ file_field \in [name : FileNames, content : FileContents]
    /\ launch = "none"
    /\ stdout = NoStdout
    /\ pc = "start"
    /\ temp_exists = FALSE
    /\ temp_created = FALSE
    /\ invocations = 0
    /\ outcome = Running
    /\ QueryIdle

NextValidate ==
    \/ CheckExtension
    \/ CheckHeader
    \/ CreateTemp
    \/ RunValidator
    \/ ParseOutput
    \/ CheckReport
    \/ AfterWith

SpecValidate == InitValidate /\ [][NextValidate]_vars

InitQuery ==
    /\ store \in Stores
    /\ request = NoRequest
    /\ response = NoResponse
    /\ ValidateIdle

NextQuery ==
    \/ LookupTag
    \/ LookupCategory
    \/ LookupAuthor
    \/ SearchRange
    \/ SearchTitle
    \/ SearchFull
    \/ SearchFullBadJson

SpecQuery == InitQuery /\ [][NextQuery]_vars

\* A table of n latest, visible records with ids 1..n, stored in id order.
PageStores ==
    { [i \in 1..n |-> Row(i, 1, TRUE, <<"t">>, {}, {}, 1, FALSE, 0, 0)] : n \in 0..MaxN }

InitPage ==
    /\ store \in PageStores
    /\ request = NoRequest
    /\ response = NoResponse
    /\ ValidateIdle

\* api_paginate on the whole table.
ApiPaginate ==
    /\ request = NoRequest
    /\ \E page_id \in PageIds :
         /\ request' = [op |-> "api_paginate", privileged |-> FALSE, page_id |-> page_id]
         /\ response' = api_paginate(store, page_id)
    /\ UNCHANGED <<store, vvars>>

\* search_full with no criteria: lines 243-257 paginate the whole table, with
\* and without a projection.
SearchFullPage ==
    /\ request = NoRequest
    /\ \E page_id \in PageIds, fmt \in { <<>>, <<"id">> } :
         /\ request' = [op |-> "search_full", privileged |-> FALSE, json_ok |-> TRUE,
                        data |-> [author |-> "", geo |-> NoGeo, title |-> <<>>,
                                  tags |-> {}, categories |-> {}, page |-> page_id,
                                  format |-> fmt]]
         /\ response' = search_full(request')
    /\ UNCHANGED <<store, vvars>>

NextPage ==
    \/ ApiPaginate
    \/ SearchFullPage

SpecPage == InitPage /\ [][NextPage]_vars

(***************************************************************************)
(*                 Properties of the validation pipeline                   *)
(***************************************************************************)
\* The three verdicts as the caller sees them: None is Valid; a list of
\* messages, or a ValidationError about the file, is Invalid; the
\* ValidationError "Internal server error." is InternalError. Any other
\* exception is none of the three.
IsValid(o)         == o = ReturnNone
IsInternalError(o) == o = InternalServerError
IsInvalid(o) ==
    \/ o.kind = "return_list"
    \/ o.kind = "raise" /\ o.exc = "ValidationError" /\ o.msg # InternalServerError.msg

\* The uploads whose name carries the .glb extension (in either case) and
\* those that start with the four magic bytes, listed outright.
GlbNames    == { <<"m", ".", "g", "l", "b">>, <<"M", ".", "G", "L", "B">> }
GlbContents == { <<"g", "l", "T", "F", "2">> }

\* C1: when validate_glb_file has ended, by a return or by any exception,
\* the temporary file it created is gone.
C1_TempFileReleased ==
    pc \in {"done", "after_with"} => ~temp_exists

C1_Witness ==
    /\ pc = "done"
    /\ temp_created
    /\ ~temp_exists
    /\ outcome.kind = "return_list"
    /\ outcome.messages # <<>>

\* C2: an upload whose name lacks the .glb extension, or whose first four
\* bytes are not "glTF", never gets a temporary file nor a validator run, and
\* ends with an Invalid verdict.
C2_RejectedBeforeAnyIO ==
    (file_field.name \notin GlbNames \/ file_field.content \notin GlbContents) =>
        /\ ~temp_created
        /\ ~temp_exists
        /\ invocations = 0
        /\ pc \in {"start", "header", "done"}
        /\ pc = "done" => IsInvalid(outcome)

C2_Witness ==
    /\ pc = "done"
    /\ file_field.name \in GlbNames
    /\ file_field.content = <<"g", "l", "T">>
    /\ IsInvalid(outcome)
    /\ invocations = 0

\* C3: when the validator cannot be located or started, or its output does
\* not parse as JSON, the run ends with the InternalError verdict.
C3_OperationalFaultIsInternalError ==
    (/\ pc = "done"
     /\ \/ launch \in {"FileNotFoundError", "PermissionError"}
        \/ stdout.kind \in {"not_utf8", "not_json"})
    => IsInternalError(outcome)

\* The report lacks one of the keys the pipeline expects.
UnexpectedShape(report) ==
    \/ "info" \notin report.keys
    \/ "totalVertexCount" \notin report.info.keys
    \/ "totalTriangleCount" \notin report.info.keys
    \/ "issues" \notin report.keys
    \/ "numErrors" \notin report.issues.keys
    \/ "messages" \notin report.issues.keys
    \/ \E i \in 1..Len(report.issues.messages) :
          \/ "severity" \notin report.issues.messages[i].keys
          \/ "message" \notin report.issues.messages[i].keys

\* C4: a JSON report of unexpected shape always ends in InternalError, and
\* so never in Valid.
C4_UnexpectedShapeIsInternalError ==
    (pc = "done" /\ stdout.kind = "json_object" /\ UnexpectedShape(stdout.report))
    => IsInternalError(outcome)

\* The severity-0 messages of a report, in report order, as {message, pointer}.
RECURSIVE ErrorsOf(_)
ErrorsOf(msgs) ==
    IF msgs = <<>> THEN <<>>
    ELSE LET rest == ErrorsOf(Tail(msgs))
             m    == Head(msgs)
         IN IF m.severity = 0
            THEN << [message |-> m.message,
                     pointer |-> IF "pointer" \in m.keys THEN m.pointer ELSE "N/A"] >>
                 \o rest
            ELSE rest

WellFormedWithGeometry(report) ==
    /\ ~UnexpectedShape(report)
    /\ report.info.totalVertexCount >= 3
    /\ report.info.totalTriangleCount >= 1

\* C5: a well-formed report with at least 3 vertices and 1 triangle gives
\* Valid when numErrors is 0, and otherwise Invalid with exactly its
\* severity-0 messages, in order, pointer "N/A" where the report has none.
C5_VerdictOfWellFormedReport ==
    (/\ pc = "done"
     /\ stdout.kind = "json_object"
     /\ WellFormedWithGeometry(stdout.report))
    => IF stdout.report.issues.numErrors = 0
       THEN IsValid(outcome)
       ELSE outcome = ReturnList(ErrorsOf(stdout.report.issues.messages))

(***************************************************************************)
(*                     Properties of the query handlers                    *)
(***************************************************************************)
QueryOps ==
    {"lookup_tag", "lookup_category", "lookup_author", "search_range",
     "search_title", "search_full"}

Projected(req) ==
    req.op = "search_full" /\ req.json_ok /\ req.data.format # <<>>

\* The page number a request asks for.
PageOf(req) ==
    IF req.op = "search_full"
    THEN (IF req.json_ok THEN req.data.page ELSE 1)
    ELSE req.page_id

\* The identifiers a 200 response lists, in response order. Every projection
\* that the requests use and that succeeds has "id" as its first field.
BodyIds(req, resp) ==
    IF Projected(req)
    THEN [i \in 1..Len(resp.body) |-> resp.body[i][1].num]
    ELSE resp.body

IdSet(req, resp) == { BodyIds(req, resp)[i] : i \in 1..Len(resp.body) }

StoreRows == RowsOf(store)

\* The record meets every criterion of the request other than visibility.
MeetsCriteria(req, m) ==
    CASE req.op = "lookup_tag" ->
           LET kv == get_kv(req.tag) IN ~kv.error /\ HasTag(m, kv.key, kv.value)
      [] req.op = "lookup_category" -> HasCategory(m, req.category)
      [] req.op = "lookup_author" ->
           req.uid \in DOMAIN SocialAuth /\ ByAuthor(m, SocialAuth[req.uid])
      [] req.op = "search_range" ->
           InBox(m, Bounds(req.latitude, req.longitude, req.distance))
      [] req.op = "search_title" -> TitleIContains(m, req.title)
      [] req.op = "search_full" ->
           /\ req.json_ok
           /\ req.data.author # "" =>
                (req.data.author \in DOMAIN SocialAuth
                 /\ ByAuthor(m, SocialAuth[req.data.author]))
           /\ req.data.geo.present =>
                InBox(m, Bounds(req.data.geo.lat, req.data.geo.lon, req.data.geo.range))
           /\ req.data.title # <<>> => TitleIContains(m, req.data.title)
           /\ \A kv \in req.data.tags : HasTag(m, kv[1], kv[2])
           /\ \A c \in req.data.categories : HasCategory(m, c)
      [] OTHER -> FALSE

\* C6: whatever the entry point and the other criteria, a hidden record is
\* never listed for a caller without privilege, and a hidden record that
\* meets the criteria is listed for a privileged caller (on page 1, which
\* holds every match of these tables).
C6_HiddenOnlyForPrivileged ==
    request.op \in QueryOps =>
        /\ ~request.privileged =>
             \A m \in StoreRows :
                 (m.latest /\ m.is_hidden) => m.model_id \notin IdSet(request, response)
        /\ (request.privileged /\ response.status = 200 /\ PageOf(request) = 1) =>
             \A m \in StoreRows :
                 (m.latest /\ m.is_hidden /\ MeetsCriteria(request, m))
                     => m.model_id \in IdSet(request, response)

\* A hidden record that meets the criteria is left out for an ordinary
\* caller, next to a visible one that is listed.
C6_Witness ==
    /\ request.op = "lookup_category"
    /\ ~request.privileged
    /\ request.page_id = 1
    /\ \E m \in StoreRows :
          m.latest /\ m.is_hidden /\ MeetsCriteria(request, m)
          /\ m.model_id \notin IdSet(request, response)
    /\ response.body # <<>>

\* C7: every result page of every entry point lists its records by
\* identifier ascending, whatever order the table yields them in.
C7_PagesSortedById ==
    (request.op \in QueryOps /\ response.status = 200) =>
        \A i, j \in 1..Len(response.body) :
            i < j => BodyIds(request, response)[i] < BodyIds(request, response)[j]

\* C8: when the bounding box of a range query wraps the antimeridian
\* (min_longitude > max_longitude), every visible latest record inside the
\* latitude band whose longitude lies in [min_longitude, 180] or in
\* [-180, max_longitude] is in the result.
C8_WrappedBoxIsTwoRanges ==
    (request.op = "search_range" /\ request.page_id = 1) =>
        LET box == Bounds(request.latitude, request.longitude, request.distance) IN
        box.min_longitude > box.max_longitude =>
            \A m \in StoreRows :
                (/\ m.latest
                 /\ request.privileged \/ ~m.is_hidden
                 /\ m.has_location
                 /\ m.latitude >= box.min_latitude
                 /\ m.latitude <= box.max_latitude
                 /\ \/ m.longitude >= box.min_longitude /\ m.longitude <= 180000
                    \/ m.longitude >= 0 - 180000 /\ m.longitude <= box.max_longitude)
                => m.model_id \in IdSet(request, response)

ProjectableFields == {"id", "latitude", "longitude", "title"}

\* The request of search_full with the projection and the page left out:
\* its response lists the first matches, if there are any.
WithoutProjection(req) ==
    [req EXCEPT !.data.format = <<>>, !.data.page = 1]

\* C9: in search_full a projection with a field name outside {id, latitude,
\* longitude, title} is rejected as a bad request whenever the match set is
\* not empty, and a record without location projects its coordinates as null.
C9_UnknownFieldRejected ==
    (request.op = "search_full" /\ request.json_ok) =>
        /\ (/\ \E i \in 1..Len(request.data.format) :
                  request.data.format[i] \notin ProjectableFields
            /\ search_full(WithoutProjection(request)).body # <<>>)
           => (response.status = 400 /\ response.text = "Invalid format specifier")
        /\ (/\ request.data.format = <<"id", "latitude", "longitude", "title">>
            /\ response.status = 200)
           => \A i \in 1..Len(response.body) :
                 (\E m \in StoreRows :
                      m.latest /\ m.model_id = response.body[i][1].num /\ ~m.has_location)
                 => (response.body[i][2] = NullCell /\ response.body[i][3] = NullCell)

\* C10: with n matches, page p lists the matches ranked 20(p-1)+1 ..
\* min(20p, n) when 1 <= p <= ceil(n/20) and is an empty list otherwise,
\* always as a 200 response.
C10_PagesOfTwenty ==
    request.op \in {"api_paginate", "search_full"} =>
        LET n    == Len(store)
            p    == PageOf(request)
            last == (n + 19) \div 20
            expected ==
                IF 1 <= p /\ p <= last
                THEN [i \in 1..(Min(20 * p, n) - 20 * (p - 1)) |-> 20 * (p - 1) + i]
                ELSE <<>>
        IN /\ response.status = 200
           /\ BodyIds(request, response) = expected

\* 25 matches: page 2 holds the last 5.
C10_Witness ==
    /\ request.op = "api_paginate"
    /\ Len(store) = 25
    /\ request.page_id = 2
    /\ response.body = <<21, 22, 23, 24, 25>>

=============================================================================
